---- MODULE Spec2Model ----
(***************************************************************************)
(* Model of electron/main.js: the PlantUMLService (persistent engine       *)
(* process, request queue, output framing, timeout recovery) and the local *)
(* HTTP server commands (port negotiation).                                *)
(*                                                                         *)
(* JavaScript runs every handler to completion, so each event handler      *)
(* (an IPC command up to its next await, a stdout 'data' event, a 'close'  *)
(* event, a timer callback, a generateSvg call) is one atomic action.      *)
(***************************************************************************)
EXTENDS Integers, Sequences, FiniteSets, TLC

\* ------------------------------------------------------------------ bounds
MaxReq == 2        \* generateSvg calls per behaviour
MaxProc == 2       \* engine processes spawned per behaviour
MaxCmd == 2        \* 'start-local-server' commands per behaviour

Reqs == 1..MaxReq
Procs == 1..MaxProc

\* --------------------------------------------------------- output alphabet
\* The engine's stdout is a character stream; a rendered document for request
\* r is its body followed by the marker "</svg>".  The marker is kept as two
\* halves so that a chunk boundary can fall inside it.  A body is the
\* positive number of the request it renders.
MarkA == 0         \* "</s"
MarkB == -1        \* "vg>"
PlaceholderBody == -2

delimiter == <<MarkA, MarkB>>

Frame(r) == <<r>> \o delimiter

\* The literal returned for unterminated source (it ends in </svg> as well).
Placeholder == <<PlaceholderBody>> \o delimiter

\* ------------------------------------------------------------ source texts
\* Source text is a sequence of words; only the end tags matter to the code.
EndTags ==
  {"@enduml", "@endmindmap", "@endwbs", "@endgantt", "@endsalt",
   "@endjson", "@endyaml", "@endmath", "@endlatex"}

\* Case folding of the words used in Texts (the regex carries the /i flag).
ToLower(w) ==
  CASE w = "@ENDUML" -> "@enduml"
    [] w = "@EndMindMap" -> "@endmindmap"
    [] w = "@EndJSON" -> "@endjson"
    [] OTHER -> w

Texts ==
  { <<>>,
    <<"@startuml", "A->B">>,
    <<"@startuml", "A->B", "@enduml">>,
    <<"@startuml", "@ENDUML">>,
    <<"@startmindmap", "*root", "@EndMindMap">>,
    <<"@startjson", "@EndJSON", "trailing">>,
    <<"@end", "uml">>,
    <<"@startwbs", "@endwbs">> }

HasEndTagPrefix(code) ==
  \E i \in 1..Len(code) : ToLower(code[i]) \in EndTags \cup {"@end"}

\* /@enduml|@endmindmap|.../i.test(pumlCode)
HasEndTagAlways(code) == TRUE

hasEndTag(code) == \E i \in 1..Len(code) : ToLower(code[i]) \in EndTags

\* ------------------------------------------------------------------- state
VARIABLES
  process,    \* this.process: 0 (null) or the process the handle refers to
  queue,      \* this.queue: requests whose {resolve, reject, timeoutId} is queued
  buffer,     \* this.buffer
  pstate,     \* per spawned process: "unborn", "alive", "killed", "exited", "closed"
  stdin,      \* per process: blocks written to it and not yet rendered
  pipe,       \* per process: stdout bytes produced and not yet delivered as 'data'
  nproc,      \* processes spawned so far
  nreq,       \* generateSvg calls so far
  status,     \* per request: "idle", "pending", "resolved", "rejected"
  result,     \* per request: the value its promise resolved with
  err,        \* per request: the error its promise rejected with
  timer,      \* per request: TRUE while its setTimeout is armed
  jar         \* fs.existsSync(jarPath)

supVars ==
  <<process, queue, buffer, pstate, stdin, pipe, nproc, nreq, status, result,
    err, timer, jar>>

VARIABLES
  localServer, \* the global localServer: NoServer (null) or a server instance
  srv,         \* per server instance: "none", "binding", "closing", "listening",
               \*   "failed", "closed"
  ncmd,        \* 'start-local-server' commands received so far
  cmd,         \* per command: where its handler stands
  replies,     \* per command: the 'local-server-status' events it has sent
  attempts,    \* per command: the ports it has called listen() on, in order
  foreign,     \* per port: whether another program holds it ("busy", "free"),
               \*   "unknown" until a bind has found out
  nhttp,       \* HTTP requests received so far
  http         \* per HTTP request: its method and path, the generateSvg call it
               \*   awaits (0: none), and the responses written for it

httpVars == <<nhttp, http>>

VARIABLES
  codec,       \* one text on its way from the editor's encodePlantUML to the
               \*   listener's decoder: stage, code, segment, pumlCode
  stopReplies  \* the 'local-server-status' events sent by 'stop-local-server'
               \*   handlers

bridgeVars ==
  <<localServer, srv, ncmd, cmd, replies, attempts, foreign, httpVars, codec,
    stopReplies>>

vars == <<supVars, bridgeVars>>

\* The part of the state the service's methods read and write, as one value.
Machine ==
  [process |-> process, queue |-> queue, buffer |-> buffer, pstate |-> pstate,
   nproc |-> nproc, status |-> status, result |-> result, err |-> err,
   timer |-> timer, thrown |-> FALSE]

Commit(m) ==
  /\ process' = m.process
  /\ queue' = m.queue
  /\ buffer' = m.buffer
  /\ pstate' = m.pstate
  /\ nproc' = m.nproc
  /\ status' = m.status
  /\ result' = m.result
  /\ err' = m.err
  /\ timer' = m.timer

\* --------------------------------------------------------------- promises
\* resolve(value): settles a pending promise, no effect on a settled one.
resolve(m, r, value) ==
  IF m.status[r] = "pending"
  THEN [m EXCEPT !.status[r] = "resolved", !.result[r] = value]
  ELSE m

\* reject(error)
reject(m, r, e) ==
  IF m.status[r] = "pending"
  THEN [m EXCEPT !.status[r] = "rejected", !.err[r] = e]
  ELSE m

\* clearTimeout(timeoutId)
clearTimeout(m, r) ==
  [m EXCEPT !.timer[r] = FALSE]

\* ------------------------------------------------------ PlantUMLService
\* process.kill(): the signal is sent; the 'close' event follows later.
kill(m, p) ==
  IF m.pstate[p] = "alive" THEN [m EXCEPT !.pstate[p] = "killed"] ELSE m

\* start() as if the artifact were always there.
StartWithoutJarCheck(m) ==
  LET k == IF m.process # 0 THEN kill(m, m.process) ELSE m
      s == [k EXCEPT !.process = 0, !.queue = <<>>, !.buffer = <<>>]
  IN  [s EXCEPT !.process = s.nproc + 1,
               !.pstate[s.nproc + 1] = "alive",
               !.nproc = s.nproc + 1]

\* stop() as if it left the queue and the buffer alone.
StopKeepsQueue(m) ==
  LET k == IF m.process # 0 THEN kill(m, m.process) ELSE m
  IN  [k EXCEPT !.process = 0]

\* stop(): the queue is replaced by an empty one; its entries are not settled
\* and their timers are not cleared.
stop(m) ==
  LET k == IF m.process # 0 THEN kill(m, m.process) ELSE m
  IN  [k EXCEPT !.process = 0, !.queue = <<>>, !.buffer = <<>>]

\* start() as if the artifact were looked for after the spawn.
StartThrowsLate(m) ==
  LET k == IF m.process # 0 THEN kill(m, m.process) ELSE m
      s == [k EXCEPT !.process = 0, !.queue = <<>>, !.buffer = <<>>]
      n == IF s.nproc < MaxProc THEN s.nproc + 1 ELSE s.nproc
  IN  [s EXCEPT !.process = n, !.pstate[n] = "alive", !.nproc = n,
                !.thrown = ~jar]

\* start(): stop(), then throw if the jar is missing, else spawn.
start(m) ==
  LET s == stop(m)
  IN  IF ~jar
      THEN [s EXCEPT !.thrown = TRUE]
      ELSE [s EXCEPT !.process = s.nproc + 1,
                     !.pstate[s.nproc + 1] = "alive",
                     !.nproc = s.nproc + 1]

\* restart()
restart(m) == start(stop(m))

\* A start() that would spawn needs a process within the bound.
CanStart(m) == jar => m.nproc < MaxProc

\* this.buffer.indexOf(delimiter), 1-based; 0 when absent.
indexOf(b) ==
  LET hits == {i \in 1..(Len(b) - 1) : b[i] = MarkA /\ b[i + 1] = MarkB}
  IN  IF hits = {} THEN 0 ELSE CHOOSE i \in hits : \A j \in hits : i <= j

RECURSIVE ProcessBufferFromTail(_)
ProcessBufferFromTail(m) ==
  LET splitIndex == indexOf(m.buffer)
  IN  IF splitIndex = 0
      THEN m
      ELSE LET svgContent == SubSeq(m.buffer, 1, splitIndex + 1)
               rest == SubSeq(m.buffer, splitIndex + 2, Len(m.buffer))
               m1 == [m EXCEPT !.buffer = rest]
           IN  IF m1.queue = <<>>
               THEN ProcessBufferFromTail(m1)
               ELSE LET n == Len(m1.queue)
                        request == m1.queue[n]
                        m2 == [m1 EXCEPT !.queue = SubSeq(m1.queue, 1, n - 1)]
                    IN  ProcessBufferFromTail(
                          resolve(clearTimeout(m2, request), request, svgContent))

\* processBuffer() as if it looked for the marker once per call.
ProcessBufferOnce(m) ==
  LET splitIndex == indexOf(m.buffer)
  IN  IF splitIndex = 0
      THEN m
      ELSE LET svgContent == SubSeq(m.buffer, 1, splitIndex + 1)
               rest == SubSeq(m.buffer, splitIndex + 2, Len(m.buffer))
               m1 == [m EXCEPT !.buffer = rest]
           IN  IF m1.queue = <<>>
               THEN m1
               ELSE LET request == Head(m1.queue)
                        m2 == [m1 EXCEPT !.queue = Tail(m1.queue)]
                    IN  resolve(clearTimeout(m2, request), request, svgContent)

\* processBuffer(): while the buffer holds the marker, cut the text up to and
\* including it and resolve the request at the head of the queue with it.
RECURSIVE processBuffer(_)
processBuffer(m) ==
  LET splitIndex == indexOf(m.buffer)
  IN  IF splitIndex = 0
      THEN m
      ELSE LET svgContent == SubSeq(m.buffer, 1, splitIndex + 1)
               rest == SubSeq(m.buffer, splitIndex + 2, Len(m.buffer))
               m1 == [m EXCEPT !.buffer = rest]
           IN  IF m1.queue = <<>>
               THEN processBuffer(m1)
               ELSE LET request == Head(m1.queue)
                        m2 == [m1 EXCEPT !.queue = Tail(m1.queue)]
                    IN  processBuffer(
                          resolve(clearTimeout(m2, request), request, svgContent))

\* The 'close' listener: the handle is cleared and every queued request is
\* rejected, whichever process the event comes from.
RECURSIVE rejectAll(_, _)
rejectAll(m, e) ==
  IF m.queue = <<>>
  THEN m
  ELSE rejectAll([reject(m, Head(m.queue), e) EXCEPT !.queue = Tail(m.queue)], e)

OnCloseKeepsHandle(m) == rejectAll(m, "ProcessClosedUnexpectedly")

onClose(m) == rejectAll([m EXCEPT !.process = 0], "ProcessClosedUnexpectedly")

\* queue.splice(findIndex(r => r.resolve === resolve), 1)
removeSelf(q, r) == SelectSeq(q, LAMBDA x : x # r)

\* The setTimeout callback of request r.  When restart() throws, the callback
\* ends there and reject is not reached.
onTimeout(m, r) ==
  LET m1 == [m EXCEPT !.timer[r] = FALSE, !.queue = removeSelf(m.queue, r)]
      m2 == restart(m1)
  IN  IF m2.thrown THEN m2 ELSE reject(m2, r, "RenderTimeout")

\* this.queue.push(entry): the entry goes to the tail.
PushFront(q, r) == <<r>> \o q

push(q, r) == Append(q, r)

\* ------------------------------------------------------------------ actions
\* generateSvg(pumlCode), up to the return of its promise (the function has no
\* await: it runs in one piece).
\*   writeThrows: stdin.write raised and the catch branch ran (only a process
\*   that has already exited, and whose 'close' event is still to come, can
\*   refuse the write; a write to it may also be accepted and lost).
generateSvg(code, writeThrows) ==
  LET r == nreq + 1
      m0 == [Machine EXCEPT !.status[r] = "pending"]
      m1 == IF m0.process = 0 THEN start(m0) ELSE m0
  IN  /\ nreq < MaxReq
      /\ m0.process = 0 => CanStart(m0)
      /\ nreq' = r
      /\ IF m1.thrown
         THEN /\ ~writeThrows
              /\ Commit(reject(m1, r, "EngineBinaryMissing"))
              /\ UNCHANGED stdin
         ELSE IF ~hasEndTag(code)
         THEN /\ ~writeThrows
              /\ Commit(resolve(m1, r, Placeholder))
              /\ UNCHANGED stdin
         ELSE LET m2 == [m1 EXCEPT !.timer[r] = TRUE,
                                   !.queue = push(m1.queue, r)]
                  p == m2.process
              IN  IF writeThrows
                  THEN /\ m2.pstate[p] = "exited"
                       /\ Commit(reject(clearTimeout(m2, r), r, "WriteFailed"))
                       /\ UNCHANGED stdin
                  ELSE /\ Commit(m2)
                       /\ stdin' = IF m2.pstate[p] = "alive"
                                   THEN [stdin EXCEPT ![p] = Append(@, r)]
                                   ELSE stdin
      /\ UNCHANGED <<pipe, jar>>

\* A call of generateSvg that does not come through the local server.
GenerateSvg(code, writeThrows) ==
  /\ generateSvg(code, writeThrows)
  /\ UNCHANGED bridgeVars

Submit == \E code \in Texts, writeThrows \in BOOLEAN : GenerateSvg(code, writeThrows)

\* The engine renders the oldest unread block: one document per block, in order.
EngineEmit(p) ==
  /\ pstate[p] = "alive"
  /\ stdin[p] # <<>>
  /\ pipe' = [pipe EXCEPT ![p] = @ \o Frame(Head(stdin[p]))]
  /\ stdin' = [stdin EXCEPT ![p] = Tail(@)]
  /\ UNCHANGED <<process, queue, buffer, pstate, nproc, nreq, status, result,
                 err, timer, jar>>
  /\ UNCHANGED bridgeVars

\* stdout 'data': a chunk of k pending bytes of process p arrives.  The
\* listener belongs to the service, not to the process it was registered for.
StdoutData(p, k) ==
  /\ pstate[p] \in {"alive", "killed", "exited"}
  /\ k \in 1..Len(pipe[p])
  /\ pipe' = [pipe EXCEPT ![p] = SubSeq(@, k + 1, Len(@))]
  /\ Commit(processBuffer([Machine EXCEPT !.buffer = @ \o SubSeq(pipe[p], 1, k)]))
  /\ UNCHANGED <<stdin, nreq, jar>>
  /\ UNCHANGED bridgeVars

\* The engine process ends on its own (crash, or java missing).
ProcessExit(p) ==
  /\ pstate[p] = "alive"
  /\ pstate' = [pstate EXCEPT ![p] = "exited"]
  /\ stdin' = [stdin EXCEPT ![p] = <<>>]
  /\ UNCHANGED <<process, queue, buffer, pipe, nproc, nreq, status, result,
                 err, timer, jar>>
  /\ UNCHANGED bridgeVars

\* 'close' of process p: emitted once the process has ended and its stdout
\* has been read to the end.
ProcessClose(p) ==
  /\ pstate[p] \in {"killed", "exited"}
  /\ pipe[p] = <<>>
  /\ Commit(onClose([Machine EXCEPT !.pstate[p] = "closed"]))
  /\ stdin' = [stdin EXCEPT ![p] = <<>>]
  /\ UNCHANGED <<pipe, nreq, jar>>
  /\ UNCHANGED bridgeVars

\* Timers all run for the same 10 s: they fire in the order they were armed.
TimerDue(r) ==
  /\ timer[r]
  /\ \A q \in Reqs : q < r => ~timer[q]

Timeout(r) ==
  /\ TimerDue(r)
  /\ CanStart(Machine)
  /\ Commit(onTimeout(Machine, r))
  /\ stdin' = IF process # 0 THEN [stdin EXCEPT ![process] = <<>>] ELSE stdin
  /\ UNCHANGED <<pipe, nreq, jar>>
  /\ UNCHANGED bridgeVars

\* plantUmlService.start() of the 'start-local-server' command.
ServiceStart ==
  /\ CanStart(Machine)
  /\ Commit(start(Machine))
  /\ stdin' = IF process # 0 THEN [stdin EXCEPT ![process] = <<>>] ELSE stdin
  /\ UNCHANGED <<pipe, nreq, jar>>
  /\ UNCHANGED bridgeVars

\* plantUmlService.stop() of 'stop-local-server', 'window-all-closed', 'will-quit'.
ServiceStop ==
  /\ Commit(stop(Machine))
  /\ stdin' = IF process # 0 THEN [stdin EXCEPT ![process] = <<>>] ELSE stdin
  /\ UNCHANGED <<pipe, nreq, jar>>
  /\ UNCHANGED bridgeVars

\* The artifact is removed from, or put back at, its path while the app runs.
JarChange ==
  /\ jar' = ~jar
  /\ UNCHANGED <<process, queue, buffer, pstate, stdin, pipe, nproc, nreq,
                 status, result, err, timer>>
  /\ UNCHANGED bridgeVars

\* ------------------------------------------------------ local HTTP server
startPort == 8080
endPort == 8090

PortRange == startPort..endPort

\* The explicit ports a command may name: one inside and one outside the range.
ManualPorts == {startPort + 1, endPort + 1}

Ports == PortRange \cup ManualPorts

Cmds == 1..MaxCmd

\* A server instance is named by the command that created it and the port it
\* was created for (createServerInstance is called once per listen()).
NoServer == <<0, 0>>
SrvIds == Cmds \X Ports

NoCmd == [pc |-> "idle", auto |-> FALSE, port |-> 0]

\* The 'local-server-status' events.
ReplyStarted(p) ==
  [success |-> TRUE, port |-> p, error |-> "", lo |-> 0, hi |-> 0]

ReplyStartFailed ==
  [success |-> FALSE, port |-> 0, error |-> "EngineBinaryMissing", lo |-> 0, hi |-> 0]

ReplyPortBusy(p) ==
  [success |-> FALSE, port |-> 0, error |-> "PortBusy", lo |-> p, hi |-> p]

ReplyRangeBusy(lo, hi) ==
  [success |-> FALSE, port |-> 0, error |-> "RangeBusy", lo |-> lo, hi |-> hi]

\* The bridge's state as one value.
Bridge ==
  [localServer |-> localServer, srv |-> srv, cmd |-> cmd, replies |-> replies,
   attempts |-> attempts]

CommitBridge(b) ==
  /\ localServer' = b.localServer
  /\ srv' = b.srv
  /\ cmd' = b.cmd
  /\ replies' = b.replies
  /\ attempts' = b.attempts

\* server.close(): a listening server stops listening at once; a server whose
\* bind is still outstanding is marked, its bind is not withdrawn.
close(b, s) ==
  [b EXCEPT !.srv[s] = CASE @ = "listening" -> "closed"
                         [] @ = "binding" -> "closing"
                         [] OTHER -> @]

\* if (localServer) { localServer.close(); localServer = null; }
closeLocalServer(b) ==
  IF b.localServer # NoServer
  THEN [close(b, b.localServer) EXCEPT !.localServer = NoServer]
  ELSE b

ReplyDropped(b, c, r) == b

\* event.reply('local-server-status', r)
reply(b, c, r) == [b EXCEPT !.replies[c] = Append(@, r)]

\* localServer = createServerInstance(event); tryListen(localServer, port),
\* up to the await.
tryListen(b, c, port) ==
  [b EXCEPT !.localServer = <<c, port>>,
            !.srv[<<c, port>>] = "binding",
            !.attempts[c] = Append(@, port),
            !.cmd[c].pc = "await",
            !.cmd[c].port = port]

ScanStopsBeforeEnd(currentPort, started) == currentPort < endPort /\ ~started

\* while (currentPort <= endPort && !started)
scanContinues(currentPort, started) == currentPort <= endPort /\ ~started

\* The automatic scan from the top of its loop: the next listen(), or the
\* report that the range is used up.
scanFrom(b, c, currentPort) ==
  IF scanContinues(currentPort, FALSE)
  THEN tryListen(b, c, currentPort)
  ELSE [reply(b, c, ReplyRangeBusy(startPort, endPort)) EXCEPT !.cmd[c].pc = "done"]

\* The catch branch of "await tryListen" as if every command were scanning.
OnListenErrorScans(b, c, port) ==
  scanFrom([b EXCEPT !.localServer = NoServer], c, port + 1)

\* The catch branch of "await tryListen": manual mode reports the port as
\* busy and clears localServer; automatic mode clears localServer and goes on
\* with the next port.
onListenError(b, c, port) ==
  LET b1 == [b EXCEPT !.localServer = NoServer]
  IN  IF b.cmd[c].auto
      THEN scanFrom(b1, c, port + 1)
      ELSE [reply(b1, c, ReplyPortBusy(port)) EXCEPT !.cmd[c].pc = "done"]

\* A port no listening server of this program holds.
NotOurs(port) == \A s \in SrvIds : srv[s] = "listening" => s[2] # port

\* ipcMain.on('start-local-server'), up to its first await.
\*   specificPort = 0 stands for null (automatic mode).
StartLocalServer(specificPort) ==
  LET c == ncmd + 1
      b0 == closeLocalServer(Bridge)
      m == start(Machine)
      b1 == [b0 EXCEPT !.cmd[c] = [pc |-> "run", auto |-> specificPort = 0,
                                   port |-> specificPort]]
  IN  /\ ncmd < MaxCmd
      /\ CanStart(Machine)
      /\ ncmd' = c
      /\ Commit(m)
      /\ stdin' = IF process # 0 THEN [stdin EXCEPT ![process] = <<>>] ELSE stdin
      /\ CommitBridge(
           IF m.thrown
           THEN [reply(b1, c, ReplyStartFailed) EXCEPT !.cmd[c].pc = "done"]
           ELSE IF specificPort # 0
           THEN tryListen(b1, c, specificPort)
           ELSE scanFrom(b1, c, startPort))
      /\ UNCHANGED <<pipe, nreq, jar, foreign>>
      /\ UNCHANGED <<httpVars, codec, stopReplies>>

\* The outcome of the outstanding listen() of command c ('listening' or
\* 'error'), and the handler's continuation up to its next await or its end.
\* The await is a suspension point: other handlers may run before the outcome
\* arrives.  bind() succeeds on a port that neither another program nor a
\* listening server of this program holds.
\*   busy: another program holds the port (found out by the first bind on it).
BindResult(c, busy) ==
  LET port == cmd[c].port
      s == <<c, port>>
  IN  /\ c \in 1..ncmd
      /\ cmd[c].pc = "await"
      /\ foreign[port] \in {"unknown", IF busy THEN "busy" ELSE "free"}
      /\ foreign' = [foreign EXCEPT ![port] = IF busy THEN "busy" ELSE "free"]
      /\ IF ~busy /\ NotOurs(port)
         THEN CommitBridge(
                [reply([Bridge EXCEPT !.srv[s] = "listening"], c, ReplyStarted(port))
                   EXCEPT !.cmd[c].pc = "done"])
         ELSE CommitBridge(onListenError([Bridge EXCEPT !.srv[s] = "failed"], c, port))
      /\ UNCHANGED ncmd
      /\ UNCHANGED supVars
      /\ UNCHANGED <<httpVars, codec, stopReplies>>

\* ipcMain.on('stop-local-server'): the handler has no event.reply call.
StopLocalServer ==
  /\ CommitBridge(closeLocalServer(Bridge))
  /\ Commit(stop(Machine))
  /\ stdin' = IF process # 0 THEN [stdin EXCEPT ![process] = <<>>] ELSE stdin
  /\ UNCHANGED <<pipe, nreq, jar, ncmd, foreign>>
  /\ UNCHANGED <<httpVars, codec, stopReplies>>

\* --------------------------------------------------- HTTP request handler
ctlVars ==
  <<localServer, srv, ncmd, cmd, replies, attempts, foreign, stopReplies>>

\* A path is what pathname.split('/') yields: a sequence of segments, each a
\* sequence of tokens.  The token "~h" stands for the two characters that
\* introduce a payload; the tokens after it stand for the hex digits of the
\* words of the text (the byte-level codec is modelled further below).
PayloadMark == "~h"

Segment(code) == <<PayloadMark>> \o code

Paths ==
  {<<<<>>, <<"svg">>, Segment(<<"@startuml", "@enduml">>)>>,
   <<<<>>, Segment(<<"@startuml">>), Segment(<<"@startuml", "@enduml">>)>>,
   <<<<>>, <<"svg">>>>,
   <<<<>>, <<"svg">>, <<"x", PayloadMark, "@enduml">>>>}

Methods == {"OPTIONS", "GET"}

\* Response bodies other than engine output.
InvalidPathBody == <<-3>>      \* 'Invalid path'
ServerErrorBody == <<-4>>      \* '<svg><text y="20" fill="red">Server Error</text></svg>'

\* What is written for a request: writeHead(code[, Content-Type]), end(body),
\* after the two setHeader calls every request starts with.
Response(code, body, contentType) ==
  [code |-> code, body |-> body, contentType |-> contentType,
   allowOrigin |-> "*", allowMethods |-> "GET, OPTIONS"]

NoHttp == [method |-> "", path |-> <<>>, req |-> 0, resp |-> <<>>]

IsPreflightNever(method) == FALSE

\* req.method === 'OPTIONS'
isPreflight(method) == method = "OPTIONS"

StartsWithAnywhere(seg) == \E i \in 1..Len(seg) : seg[i] = PayloadMark

\* p.startsWith('~h')
startsWith(seg) == Len(seg) >= 1 /\ seg[1] = PayloadMark

\* parts.findIndex(p => p.startsWith('~h')), 1-based; 0 when there is none.
findIndex(parts) ==
  LET hits == {i \in 1..Len(parts) : startsWith(parts[i])}
  IN  IF hits = {} THEN 0 ELSE CHOOSE i \in hits : \A j \in hits : i <= j

\* Buffer.from(parts[hexIndex].substring(2), 'hex').toString('utf8')
pumlCodeOf(seg) == Tail(seg)

AnswerAlwaysOk(r) == Response(200, result[r], "image/svg+xml; charset=utf-8")

\* The two branches after "await plantUmlService.generateSvg(pumlCode)".
answer(r) ==
  IF status[r] = "resolved"
  THEN Response(200, result[r], "image/svg+xml; charset=utf-8")
  ELSE Response(500, ServerErrorBody, "")

\* The request listener of a listening server, up to its await or its end.
HttpRequest(method, path) ==
  LET h == nhttp + 1
      hexIndex == findIndex(path)
      arrived == [NoHttp EXCEPT !.method = method, !.path = path]
  IN  /\ nhttp < MaxReq
      /\ \E s \in SrvIds : srv[s] = "listening"
      /\ nhttp' = h
      /\ IF isPreflight(method)
         THEN /\ http' = [http EXCEPT ![h] =
                           [arrived EXCEPT !.resp = <<Response(204, <<>>, "")>>]]
              /\ UNCHANGED supVars
         ELSE IF hexIndex = 0
         THEN /\ http' = [http EXCEPT ![h] =
                           [arrived EXCEPT !.resp = <<Response(400, InvalidPathBody, "")>>]]
              /\ UNCHANGED supVars
         ELSE /\ \E writeThrows \in BOOLEAN :
                   generateSvg(pumlCodeOf(path[hexIndex]), writeThrows)
              /\ http' = [http EXCEPT ![h] = [arrived EXCEPT !.req = nreq + 1]]
      /\ UNCHANGED <<ctlVars, codec>>

\* The listener's continuation once the promise of its generateSvg call has
\* settled.
HttpRespond(h) ==
  /\ h \in 1..nhttp
  /\ http[h].req # 0
  /\ http[h].resp = <<>>
  /\ status[http[h].req] \in {"resolved", "rejected"}
  /\ http' = [http EXCEPT ![h].resp = <<answer(http[h].req)>>]
  /\ UNCHANGED nhttp
  /\ UNCHANGED supVars
  /\ UNCHANGED <<ctlVars, codec>>

\* ------------------------------------------------------ payload codec
\* A JavaScript string is a sequence of UTF-16 code units.  The texts tried:
\* line feed, "A", U+00E9, U+4E2D, and the two halves of U+1F600.
Alphabet == {10, 65, 233, 20013, 55357, 56832}

MaxText == 3       \* code units per text

Strings == UNION {[1..n -> Alphabet] : n \in 0..MaxText}

IsHigh(u) == u \in 55296..56319
IsLow(u) == u \in 56320..57343

\* The scalar values TextEncoder sees: a surrogate pair is one scalar, a
\* surrogate on its own is replaced by U+FFFD.
RECURSIVE toScalars(_)
toScalars(str) ==
  IF str = <<>> THEN <<>>
  ELSE IF IsHigh(str[1]) /\ Len(str) >= 2 /\ IsLow(str[2])
  THEN <<65536 + (str[1] - 55296) * 1024 + (str[2] - 56320)>>
         \o toScalars(SubSeq(str, 3, Len(str)))
  ELSE IF IsHigh(str[1]) \/ IsLow(str[1])
  THEN <<65533>> \o toScalars(Tail(str))
  ELSE <<str[1]>> \o toScalars(Tail(str))

\* The UTF-8 bytes of one scalar value.
utf8(cp) ==
  IF cp < 128 THEN <<cp>>
  ELSE IF cp < 2048 THEN <<192 + (cp \div 64), 128 + (cp % 64)>>
  ELSE IF cp < 65536
  THEN <<224 + (cp \div 4096), 128 + ((cp \div 64) % 64), 128 + (cp % 64)>>
  ELSE <<240 + (cp \div 262144), 128 + ((cp \div 4096) % 64),
         128 + ((cp \div 64) % 64), 128 + (cp % 64)>>

\* new TextEncoder().encode(code)
RECURSIVE encodeScalars(_)
encodeScalars(cps) ==
  IF cps = <<>> THEN <<>> ELSE utf8(cps[1]) \o encodeScalars(Tail(cps))

encode(code) == encodeScalars(toScalars(code))

HexDigits ==
  <<"0", "1", "2", "3", "4", "5", "6", "7", "8", "9", "a", "b", "c", "d", "e", "f">>

\* data[i].toString(16)
toString16(b) ==
  IF b < 16 THEN <<HexDigits[b + 1]>>
  ELSE <<HexDigits[(b \div 16) + 1], HexDigits[(b % 16) + 1]>>

ByteHexUnpadded(b) == toString16(b)

\* (hex.length === 1 ? '0' : '') + hex
byteHex(b) ==
  LET hex == toString16(b)
  IN  (IF Len(hex) = 1 THEN <<"0">> ELSE <<>>) \o hex

RECURSIVE hexStr(_)
hexStr(data) ==
  IF data = <<>> THEN <<>> ELSE byteHex(data[1]) \o hexStr(Tail(data))

\* encodePlantUML(code, serverUrl): the path of the URL it returns, split at
\* '/', each segment a sequence of characters.
encodePlantUML(code) ==
  <<<<>>, <<"s", "v", "g">>, <<"~", "h">> \o hexStr(encode(code))>>

\* The value of a hex digit, upper or lower case; -1 for any other character.
hexValue(ch) ==
  LET lower == {i \in 1..16 : HexDigits[i] = ch}
      upper == {i \in 11..16 : <<"A", "B", "C", "D", "E", "F">>[i - 10] = ch}
  IN  IF lower \cup upper = {} THEN -1 ELSE (CHOOSE i \in lower \cup upper : TRUE) - 1

\* Buffer.from(hex, 'hex'): pairs of digits, up to the first pair that is not
\* two hex digits; a single digit left over is dropped.
RECURSIVE fromHex(_)
fromHex(hex) ==
  IF Len(hex) < 2 \/ hexValue(hex[1]) < 0 \/ hexValue(hex[2]) < 0
  THEN <<>>
  ELSE <<16 * hexValue(hex[1]) + hexValue(hex[2])>>
         \o fromHex(SubSeq(hex, 3, Len(hex)))

IsCont(bytes, i) == i <= Len(bytes) /\ bytes[i] \in 128..191

\* The UTF-16 code units of one scalar value.
utf16(cp) ==
  IF cp < 65536 THEN <<cp>>
  ELSE <<55296 + ((cp - 65536) \div 1024), 56320 + ((cp - 65536) % 1024)>>

\* buf.toString('utf8'): well-formed sequences are decoded, a byte that
\* starts none is replaced by U+FFFD.
RECURSIVE toStringUtf8(_)
toStringUtf8(bytes) ==
  IF bytes = <<>> THEN <<>>
  ELSE LET b == bytes[1]
           two == (b - 192) * 64 + (bytes[2] - 128)
           three == (b - 224) * 4096 + (bytes[2] - 128) * 64 + (bytes[3] - 128)
           four == (b - 240) * 262144 + (bytes[2] - 128) * 4096
                     + (bytes[3] - 128) * 64 + (bytes[4] - 128)
       IN  IF b < 128
           THEN <<b>> \o toStringUtf8(Tail(bytes))
           ELSE IF b \in 194..223 /\ IsCont(bytes, 2)
           THEN <<two>> \o toStringUtf8(SubSeq(bytes, 3, Len(bytes)))
           ELSE IF /\ b \in 224..239 /\ IsCont(bytes, 2) /\ IsCont(bytes, 3)
                   /\ three >= 2048 /\ three \notin 55296..57343
           THEN <<three>> \o toStringUtf8(SubSeq(bytes, 4, Len(bytes)))
           ELSE IF /\ b \in 240..244
                   /\ IsCont(bytes, 2) /\ IsCont(bytes, 3) /\ IsCont(bytes, 4)
                   /\ four \in 65536..1114111
           THEN utf16(four) \o toStringUtf8(SubSeq(bytes, 5, Len(bytes)))
           ELSE <<65533>> \o toStringUtf8(Tail(bytes))

\* p.startsWith('~h'), on characters.
startsWithTildeH(seg) == Len(seg) >= 2 /\ seg[1] = "~" /\ seg[2] = "h"

\* The listener's decoding of a path: 0 stands for "no payload segment".
decodePath(parts) ==
  LET hits == {i \in 1..Len(parts) : startsWithTildeH(parts[i])}
      hexIndex == IF hits = {} THEN 0 ELSE CHOOSE i \in hits : \A j \in hits : i <= j
  IN  IF hexIndex = 0
      THEN [found |-> FALSE, pumlCode |-> <<>>]
      ELSE LET hex == SubSeq(parts[hexIndex], 3, Len(parts[hexIndex]))
           IN  [found |-> TRUE, pumlCode |-> toStringUtf8(fromHex(hex))]

NoCodec == [stage |-> "idle", code |-> <<>>, parts |-> <<>>, found |-> FALSE,
            pumlCode |-> <<>>]

\* The editor builds the URL for its current text.
Encode(code) ==
  /\ codec.stage = "idle"
  /\ codec' = [codec EXCEPT !.stage = "sent", !.code = code,
                            !.parts = encodePlantUML(code)]
  /\ UNCHANGED <<supVars, ctlVars, httpVars>>

\* The listener decodes the path it received.
Decode ==
  /\ codec.stage = "sent"
  /\ codec' = [codec EXCEPT !.stage = "decoded",
                            !.found = decodePath(codec.parts).found,
                            !.pumlCode = decodePath(codec.parts).pumlCode]
  /\ UNCHANGED <<supVars, ctlVars, httpVars>>

\* ------------------------------------------------------- specifications
SupInit ==
  /\ process = 0
  /\ queue = <<>>
  /\ buffer = <<>>
  /\ pstate = [p \in Procs |-> "unborn"]
  /\ stdin = [p \in Procs |-> <<>>]
  /\ pipe = [p \in Procs |-> <<>>]
  /\ nproc = 0
  /\ nreq = 0
  /\ status = [r \in Reqs |-> "idle"]
  /\ result = [r \in Reqs |-> <<>>]
  /\ err = [r \in Reqs |-> ""]
  /\ timer = [r \in Reqs |-> FALSE]
  /\ jar \in BOOLEAN

BridgeInit ==
  /\ localServer = NoServer
  /\ srv = [s \in SrvIds |-> "none"]
  /\ ncmd = 0
  /\ cmd = [c \in Cmds |-> NoCmd]
  /\ replies = [c \in Cmds |-> <<>>]
  /\ attempts = [c \in Cmds |-> <<>>]
  /\ foreign = [p \in Ports |-> "unknown"]
  /\ nhttp = 0
  /\ http = [h \in Reqs |-> NoHttp]
  /\ codec = NoCodec
  /\ stopReplies = <<>>

\* The service on its own: no HTTP listener is started.
Init == SupInit /\ BridgeInit

\* The service with the artifact either present or missing throughout.
Next ==
  \/ Submit
  \/ \E p \in Procs : EngineEmit(p)
  \/ \E p \in Procs, k \in 1..(3 * MaxReq) : StdoutData(p, k)
  \/ \E p \in Procs : ProcessExit(p)
  \/ \E p \in Procs : ProcessClose(p)
  \/ \E r \in Reqs : Timeout(r)
  \/ ServiceStart
  \/ ServiceStop

Spec == Init /\ [][Next]_vars

\* The service serving requests while the artifact may disappear or reappear.
JarNext ==
  \/ Submit
  \/ \E p \in Procs : EngineEmit(p)
  \/ \E p \in Procs, k \in 1..(3 * MaxReq) : StdoutData(p, k)
  \/ \E p \in Procs : ProcessClose(p)
  \/ \E r \in Reqs : Timeout(r)
  \/ JarChange

\* Node delivers every due timer, every pending 'data' and 'close' event, and
\* the engine renders what it has read.
JarSpec ==
  /\ Init
  /\ [][JarNext]_vars
  /\ WF_vars(\E r \in Reqs : Timeout(r))
  /\ WF_vars(\E p \in Procs : ProcessClose(p))
  /\ WF_vars(\E p \in Procs, k \in 1..(3 * MaxReq) : StdoutData(p, k))
  /\ WF_vars(\E p \in Procs : EngineEmit(p))

\* The control commands of the local server and the outcomes of their binds,
\* with any set of ports held by other programs.  The engine is started and
\* stopped by the commands; it serves no request here.
BridgeNext ==
  \/ \E specificPort \in {0} \cup ManualPorts : StartLocalServer(specificPort)
  \/ \E c \in Cmds, busy \in BOOLEAN : BindResult(c, busy)
  \/ StopLocalServer

BridgeSpec == Init /\ [][BridgeNext]_vars

\* Every outstanding listen() ends with 'listening' or 'error'.
BridgeFairSpec ==
  /\ Init
  /\ [][BridgeNext]_vars
  /\ WF_vars(\E c \in Cmds, busy \in BOOLEAN : BindResult(c, busy))

\* The local server in service on one explicit port: start commands, HTTP
\* requests, the engine's output (each 'data' event delivers all that is
\* pending) and the request timers.
ServeNext ==
  \/ \E specificPort \in {startPort + 1} : StartLocalServer(specificPort)
  \/ \E c \in Cmds : BindResult(c, FALSE)
  \/ \E method \in Methods, path \in Paths : HttpRequest(method, path)
  \/ \E h \in Reqs : HttpRespond(h)
  \/ \E p \in Procs : EngineEmit(p)
  \/ \E p \in Procs : StdoutData(p, Len(pipe[p]))
  \/ \E r \in Reqs : Timeout(r)

\* A listener whose promise has settled is resumed.
ServeSpec ==
  /\ Init
  /\ [][ServeNext]_vars
  /\ WF_vars(\E h \in Reqs : HttpRespond(h))

\* Start and stop commands arriving while requests are in flight and engine
\* output is partly delivered.
ControlNext ==
  \/ \E specificPort \in {startPort + 1} : StartLocalServer(specificPort)
  \/ \E c \in Cmds, busy \in BOOLEAN : BindResult(c, busy)
  \/ StopLocalServer
  \/ \E method \in Methods, path \in Paths : HttpRequest(method, path)
  \/ \E p \in Procs : EngineEmit(p)
  \/ \E p \in Procs, k \in 1..(3 * MaxReq) : StdoutData(p, k)

ControlSpec == Init /\ [][ControlNext]_vars

\* A text of the editor encoded into a URL and decoded by the listener.
CodecNext ==
  \/ \E code \in Strings : Encode(code)
  \/ Decode

CodecSpec == Init /\ [][CodecNext]_vars

\* The control commands while the artifact may disappear or reappear.
BridgeJarNext ==
  \/ BridgeNext
  \/ JarChange

BridgeJarSpec == Init /\ [][BridgeJarNext]_vars

\* ------------------------------------------------------------------ claims
Range(f) == {f[i] : i \in DOMAIN f}

Submitted == 1..nreq

\* Source text with none of the recognized terminators, in any letter case.
NoTerminator(code) ==
  \A i \in 1..Len(code) :
    code[i] \notin EndTags \cup {"@ENDUML", "@EndMindMap", "@EndJSON"}

\* One engine process has been spawned, it is the current one and it runs:
\* no timeout, stop, restart or process exit has happened so far.
Undisturbed == nproc = 1 /\ process = 1 /\ pstate[1] = "alive"

\* The engine's document for r has not yet reached the service completely.
Unanswered(r) ==
  \/ r \in Range(stdin[1])
  \/ r \in Range(pipe[1])
  \/ r \in Range(buffer)

\* C1: FIFO correlation.  While the first engine process runs undisturbed,
\* a request with terminated text is pending exactly as long as the engine's
\* document for it has not arrived completely, however the output was cut
\* into chunks, and once it has arrived the request is resolved with exactly
\* that document: the I-th document resolves the I-th request.  Requests
\* refused before any engine could be started are outside the statement.
C1_FifoCorrelation ==
  Undisturbed =>
    \A r \in Submitted :
      err[r] # "EngineBinaryMissing" =>
        /\ status[r] # "rejected"
        /\ status[r] = "pending" <=> Unanswered(r)
        /\ status[r] = "resolved" => result[r] \in {Frame(r), Placeholder}
        /\ result[r] = Placeholder => r \notin Range(queue)
        /\ status[r] = "pending" => r \in Range(queue)

C1_Witness ==
  /\ Undisturbed
  /\ nreq = MaxReq
  /\ \A r \in Reqs : status[r] = "resolved" /\ result[r] = Frame(r)

\* C2: no misdelivery.  A future resolved with engine output holds the
\* document the engine produced for that very request.
C2_NoMisdelivery ==
  \A r \in Submitted :
    status[r] = "resolved" => result[r] \in {Frame(r), Placeholder}

\* What a submit of unterminated text must leave alone.
WritesNothing == stdin' = stdin /\ queue' = queue /\ timer' = timer

\* C3 as stated: in every state, submit of unterminated text writes nothing,
\* queues nothing, arms no timer and resolves with the placeholder.
C3_AntiHangEveryState ==
  [][\A code \in Texts :
       (nreq' # nreq /\ NoTerminator(code) /\ GenerateSvg(code, FALSE)) =>
         /\ WritesNothing
         /\ status'[nreq'] = "resolved"
         /\ result'[nreq'] = Placeholder]_vars

\* C3 amended: submit of unterminated text writes nothing, queues nothing and
\* arms no timer in every state; it resolves with the placeholder whenever a
\* process is running or can be started, and is rejected with the start
\* error when no process is running and the artifact is missing.
C3_AntiHang ==
  [][\A code \in Texts :
       (nreq' # nreq /\ NoTerminator(code) /\ GenerateSvg(code, FALSE)) =>
         /\ WritesNothing
         /\ IF process = 0 /\ ~jar
            THEN status'[nreq'] = "rejected" /\ err'[nreq'] = "EngineBinaryMissing"
            ELSE status'[nreq'] = "resolved" /\ result'[nreq'] = Placeholder]_vars

C3_Witness ==
  \E r \in Submitted :
    /\ status[r] = "resolved"
    /\ result[r] = Placeholder
    /\ \E q \in Submitted : q < r /\ status[q] = "pending" /\ q \in Range(queue)

\* C4: stop() drains by rejection.  A stop() run by a control command rejects
\* every pending request of the queue with ProcessStopped, empties queue and
\* buffer and terminates the process.
C4_StopRejectsPending ==
  [][(ServiceStop \/ ServiceStart) =>
       /\ \A r \in Range(queue) :
            status[r] = "pending" =>
              status'[r] = "rejected" /\ err'[r] = "ProcessStopped"
       /\ queue' = <<>>
       /\ buffer' = <<>>
       /\ process # 0 => pstate'[process] # "alive"]_vars

\* C5: a timeout drains the whole queue.  When the timer of pending request
\* a fires, a is rejected with RenderTimeout and every other pending request
\* of the queue is rejected in the same step.
C5_TimeoutDrainsQueue ==
  [][\A a \in Reqs :
       (Timeout(a) /\ status[a] = "pending" /\ a \in Range(queue)) =>
         /\ status'[a] = "rejected" /\ err'[a] = "RenderTimeout"
         /\ a \notin Range(queue')
         /\ \A b \in Range(queue) :
              status[b] = "pending" => status'[b] = "rejected"]_vars

\* An event left over from before the last restart: the timer of a request
\* that is no longer queued, or the 'close' of a process that is no longer
\* the current one.
LeftoverEvent ==
  \/ \E b \in Reqs : b \notin Range(queue) /\ Timeout(b)
  \/ \E p \in Procs : p # process /\ ProcessClose(p)

\* C6: recovery after a timeout.  Once a request has timed out, a later
\* request d that is pending on the restarted engine is not rejected, not
\* removed from the queue and does not lose its process through a leftover
\* event of the requests and the process from before the restart.
C6_RecoveryAfterTimeout ==
  [][\A d \in Reqs :
       ( /\ LeftoverEvent
         /\ status[d] = "pending"
         /\ d \in Range(queue)
         /\ process # 0
         /\ pstate[process] = "alive"
         /\ \E a \in Reqs : a < d /\ err[a] = "RenderTimeout" ) =>
         /\ status'[d] = "pending"
         /\ d \in Range(queue')
         /\ process' = process
         /\ pstate'[process] = "alive"]_vars

\* C7: process-crash drain.  The 'close' of the current process rejects every
\* pending request of the queue with ProcessClosedUnexpectedly and leaves the
\* queue empty and the service stopped; a submit of terminated text on a
\* stopped service whose artifact is present spawns a process that did not
\* exist before and writes the block to it.
C7_CrashDrain ==
  [][ /\ \A p \in Procs :
           (p = process /\ ProcessClose(p)) =>
             /\ \A r \in Range(queue) :
                  /\ status'[r] = "rejected"
                  /\ status[r] = "pending" => err'[r] = "ProcessClosedUnexpectedly"
             /\ queue' = <<>>
             /\ process' = 0
             /\ pstate'[p] = "closed"
      /\ \A code \in Texts :
           ( /\ nreq' # nreq
             /\ process = 0
             /\ jar
             /\ ~NoTerminator(code)
             /\ GenerateSvg(code, FALSE) ) =>
             /\ process' \in Procs
             /\ pstate[process'] = "unborn"
             /\ pstate'[process'] = "alive"
             /\ stdin'[process'] = <<nreq'>>
             /\ queue' = <<nreq'>>
             /\ \A p \in Procs \ {process'} : stdin'[p] = stdin[p] ]_vars

C7_Witness ==
  \E r, q \in Submitted, p \in Procs :
    /\ err[r] = "ProcessClosedUnexpectedly"
    /\ pstate[p] = "closed"
    /\ q > r
    /\ status[q] = "pending"
    /\ process # 0
    /\ pstate[process] = "alive"
    /\ queue = <<q>>
    /\ stdin[process] = <<q>>

\* C8: single engine process.  At most one spawned process is alive, and an
\* alive process is the one the service's handle refers to.
C8_SingleProcess ==
  /\ Cardinality({p \in Procs : pstate[p] = "alive"}) <= 1
  /\ \A p \in Procs : pstate[p] = "alive" => process = p

\* C9: every submit eventually settles (a behaviour that has used up the
\* process bound is left out: there the model cannot restart).
C9_EventuallySettles ==
  \A r \in Reqs :
    [](status[r] = "pending" => <>(status[r] # "pending" \/ nproc = MaxProc))

\* C10: automatic port scan.  A command without an explicit port calls
\* listen() on 8080, 8081, ... one port at a time, moving on only after the
\* bind on the port before has failed; it reports the port of the first bind
\* that succeeds and tries no port after it; it reports failure, naming the
\* range 8080-8090, exactly when the binds on all eleven ports have failed.
\* For a command on its own the reported port is the lowest port of the
\* range that no other program holds.
C10_AutoPortScan ==
  \A c \in 1..ncmd :
    cmd[c].auto =>
      LET a == attempts[c]
          n == Len(a)
      IN  /\ n <= 11
          /\ \A i \in 1..n : a[i] = 8080 + i - 1
          /\ \A i \in 1..(n - 1) : srv[<<c, a[i]>>] = "failed"
          /\ cmd[c].pc \in {"await", "done"}
          /\ cmd[c].pc = "await" =>
               /\ replies[c] = <<>>
               /\ n >= 1
               /\ srv[<<c, a[n]>>] \in {"binding", "closing"}
          /\ cmd[c].pc = "done" =>
               \/ replies[c] = <<ReplyStartFailed>> /\ n = 0
               \/ /\ n >= 1
                  /\ replies[c] = <<ReplyStarted(a[n])>>
                  /\ srv[<<c, a[n]>>] \in {"listening", "closed"}
                  /\ ncmd = 1 =>
                       /\ foreign[a[n]] = "free"
                       /\ \A q \in 8080..(a[n] - 1) : foreign[q] = "busy"
               \/ /\ n = 11
                  /\ replies[c] = <<ReplyRangeBusy(8080, 8090)>>
                  /\ srv[<<c, a[n]>>] = "failed"
                  /\ ncmd = 1 => \A q \in 8080..8090 : foreign[q] = "busy"

\* Ports 8080-8082 are held by other programs, 8083 is free: 8083 is bound.
C10_Witness ==
  /\ ncmd = 1
  /\ cmd[1].auto
  /\ cmd[1].pc = "done"
  /\ \A q \in 8080..8082 : foreign[q] = "busy"
  /\ replies[1] = <<ReplyStarted(8083)>>
  /\ localServer = <<1, 8083>>
  /\ srv[<<1, 8083>>] = "listening"

\* C11: manual port mode.  A command with an explicit port calls listen() at
\* most once, on that port, and creates no server for any other port; when
\* the bind fails it reports that port as busy, and the step that reports it
\* leaves localServer null with exactly that one attempt made.
C11_ManualModeState ==
  \A c \in 1..ncmd :
    ~cmd[c].auto =>
      LET port == cmd[c].port
      IN  /\ attempts[c] \in {<<>>, <<port>>}
          /\ \A q \in Ports \ {port} : srv[<<c, q>>] = "none"
          /\ attempts[c] = <<>> <=> replies[c] = <<ReplyStartFailed>>
          /\ cmd[c].pc = "await" => replies[c] = <<>> /\ attempts[c] = <<port>>
          /\ (cmd[c].pc = "done" /\ attempts[c] = <<port>>) =>
               \/ replies[c] = <<ReplyStarted(port)>>
                    /\ srv[<<c, port>>] \in {"listening", "closed"}
               \/ replies[c] = <<ReplyPortBusy(port)>>
                    /\ srv[<<c, port>>] = "failed"
          /\ (cmd[c].pc = "done" /\ foreign[port] = "busy") =>
               replies[c] \in {<<ReplyStartFailed>>, <<ReplyPortBusy(port)>>}

C11_ManualModeStep ==
  \A c \in Cmds :
    (/\ replies[c] = <<>>
     /\ replies'[c] # <<>>
     /\ ~cmd'[c].auto
     /\ ~replies'[c][1].success
     /\ attempts'[c] # <<>>) =>
      /\ localServer' = NoServer
      /\ attempts'[c] = <<cmd'[c].port>>
      /\ replies'[c] = <<ReplyPortBusy(cmd'[c].port)>>
      /\ \A s \in SrvIds : srv'[s] = "binding" => s[1] # c

C11_ManualPort == []C11_ManualModeState /\ [][C11_ManualModeStep]_vars

\* Port 8081 is held by another program and named explicitly: the one bind
\* fails and is reported.
C11_Witness ==
  /\ ncmd = 1
  /\ ~cmd[1].auto
  /\ cmd[1].pc = "done"
  /\ foreign[startPort + 1] = "busy"
  /\ attempts[1] = <<startPort + 1>>
  /\ replies[1] = <<ReplyPortBusy(startPort + 1)>>
  /\ localServer = NoServer

\* C12: single bridge instance.  Under any interleaving of the commands and
\* the outcomes of their binds, at most one server of the program is
\* listening at any time.
C12_SingleBridgeInstance ==
  Cardinality({s \in SrvIds : srv[s] = "listening"}) <= 1

\* The step in which command c sends its status event.
Reports(c) == replies[c] = <<>> /\ replies'[c] # <<>>

\* C13: no partial start on port failure.  When a command reports that its
\* port, or the whole range, could not be bound, then after that step no
\* server created by the command is listening or still binding, and no
\* engine process is running.
C13_NoPartialStart ==
  [][\A c \in Cmds :
       (Reports(c) /\ replies'[c][1].error \in {"PortBusy", "RangeBusy"}) =>
         /\ \A s \in SrvIds : s[1] = c => srv'[s] \notin {"listening", "binding"}
         /\ process' = 0
         /\ \A p \in Procs : pstate'[p] # "alive"]_vars

\* Every listening server of the program is the one localServer refers to.
NoStrayListener == \A s \in SrvIds : srv[s] = "listening" => localServer = s

C15_StopPostState ==
  [][StopLocalServer =>
       /\ localServer' = NoServer
       /\ localServer # NoServer => srv'[localServer] # "listening"
       /\ process' = 0
       /\ process # 0 => pstate'[process] # "alive"
       /\ queue' = <<>>
       /\ buffer' = <<>>]_vars

\* The only command so far started a server on 8081; a request was queued
\* and the first byte of its document was in the buffer when the stop came.
C15_Witness ==
  /\ ncmd = 1
  /\ srv[<<1, startPort + 1>>] = "closed"
  /\ localServer = NoServer
  /\ pstate[1] = "killed"
  /\ process = 0
  /\ status[1] = "pending"
  /\ pipe[1] = delimiter
  /\ queue = <<>>
  /\ buffer = <<>>

Settled(r) == status[r] \in {"resolved", "rejected"}

\* A request on the render path: not a preflight, with a payload segment.
IsRender(h) == ~isPreflight(http[h].method) /\ findIndex(http[h].path) # 0

SvgContentType == "image/svg+xml; charset=utf-8"

\* C16: render requests get one answer.  A request with a payload segment
\* calls generateSvg once; nothing is written for it before that promise has
\* settled, and what is written is 200 with the resolved value and the SVG
\* content type, or 500 with the diagnostic body after a rejection.
C16_AnswerMatchesOutcome ==
  \A h \in 1..nhttp :
    IsRender(h) =>
      LET r == http[h].req
      IN  /\ r \in 1..nreq
          /\ \A g \in 1..nhttp : http[g].req = r => g = h
          /\ Len(http[h].resp) <= 1
          /\ http[h].resp # <<>> =>
               /\ Settled(r)
               /\ status[r] = "resolved" =>
                    http[h].resp = <<Response(200, result[r], SvgContentType)>>
               /\ status[r] = "rejected" =>
                    http[h].resp = <<Response(500, ServerErrorBody, "")>>

\* A response once written stays as it is, and writing one changes neither
\* the servers nor localServer.
C16_AnswerOnceListenerStays ==
  \A h \in Reqs :
    /\ http[h].resp # <<>> => http'[h].resp = http[h].resp
    /\ http'[h].resp # http[h].resp => srv' = srv /\ localServer' = localServer

\* Once the promise has settled the answer is written.
C16_RenderAnswered ==
  /\ []C16_AnswerMatchesOutcome
  /\ [][C16_AnswerOnceListenerStays]_vars
  /\ \A h \in Reqs :
       (h <= nhttp /\ IsRender(h) /\ Settled(http[h].req)) ~> (http[h].resp # <<>>)

\* The first request timed out and got 500; the second, served by the
\* restarted engine through the same listener, got 200 with its document.
C16_Witness ==
  /\ nhttp = 2
  /\ ncmd = 1
  /\ srv[<<1, startPort + 1>>] = "listening"
  /\ status[1] = "rejected"
  /\ http[1].resp = <<Response(500, ServerErrorBody, "")>>
  /\ status[2] = "resolved"
  /\ http[2].resp = <<Response(200, Frame(2), SvgContentType)>>

\* The step in which HTTP request h arrives.
Arrives(h) == nhttp = h - 1 /\ nhttp' = h

\* C17: preflight.  An OPTIONS request, whatever its path, is answered at
\* once with 204, an empty body, Access-Control-Allow-Origin: * and
\* Access-Control-Allow-Methods: GET, OPTIONS; it makes no generateSvg call
\* and its handling leaves the service untouched.
C17_PreflightAnswer ==
  \A h \in 1..nhttp :
    http[h].method = "OPTIONS" =>
      /\ http[h].req = 0
      /\ Len(http[h].resp) = 1
      /\ http[h].resp[1].code = 204
      /\ http[h].resp[1].body = <<>>
      /\ http[h].resp[1].allowOrigin = "*"
      /\ http[h].resp[1].allowMethods = "GET, OPTIONS"

C17_Preflight ==
  /\ []C17_PreflightAnswer
  /\ [][\A h \in Reqs :
          (Arrives(h) /\ http'[h].method = "OPTIONS") => supVars' = supVars]_vars

\* An OPTIONS request for a path with a payload, while the engine runs.
C17_Witness ==
  /\ nhttp >= 1
  /\ http[1].method = "OPTIONS"
  /\ findIndex(http[1].path) # 0
  /\ http[1].resp = <<Response(204, <<>>, "")>>
  /\ nreq = 0
  /\ process # 0

\* No segment of the path starts with ~h.
NoPayloadSegment(path) ==
  \A i \in 1..Len(path) : path[i] = <<>> \/ path[i][1] # PayloadMark

\* C18: decode failure is a client error.  A request that is not OPTIONS and
\* whose path has no segment starting with ~h is answered at once with 400;
\* it makes no generateSvg call and its handling leaves the service
\* untouched.
C18_NoPayloadAnswer ==
  \A h \in 1..nhttp :
    (http[h].method # "OPTIONS" /\ NoPayloadSegment(http[h].path)) =>
      /\ http[h].req = 0
      /\ http[h].resp = <<Response(400, InvalidPathBody, "")>>

RECURSIVE WellFormed(_)
WellFormed(str) ==
  IF str = <<>> THEN TRUE
  ELSE IF IsHigh(str[1])
  THEN Len(str) >= 2 /\ IsLow(str[2]) /\ WellFormed(SubSeq(str, 3, Len(str)))
  ELSE ~IsLow(str[1]) /\ WellFormed(Tail(str))

\* C19: decode round-trip.  For every text (empty, ASCII with line feeds,
\* two-, three- and four-byte characters) the listener finds the payload
\* segment of the path encodePlantUML built and decodes it to exactly that
\* text.
C19_DecodeRoundTrip ==
  (codec.stage = "decoded" /\ WellFormed(codec.code)) =>
    /\ codec.found
    /\ codec.pumlCode = codec.code

\* U+4E2D followed by U+1F600 has come back unchanged.
C19_Witness ==
  /\ codec.stage = "decoded"
  /\ codec.code = <<20013, 55357, 56832>>
  /\ codec.parts[3] = <<"~", "h", "e", "4", "b", "8", "a", "d",
                        "f", "0", "9", "f", "9", "8", "8", "0">>
  /\ codec.pumlCode = codec.code

\* A status event is a success with a port or a failure with an error.
WellShaped(r) ==
  \/ r.success /\ r.port \in Ports /\ r.error = ""
  \/ ~r.success /\ r.port = 0 /\ r.error # ""

\* C20: one status event per start command.  A command in manual mode, in
\* automatic mode or with the engine failing to start has sent no event
\* while its handler waits for a bind and exactly one when the handler has
\* ended; the event is a success with the port or a failure with an error,
\* it is never followed by another, and from some point on every command
\* received has its event.
C20_AtMostOneEvent ==
  \A c \in 1..ncmd :
    /\ cmd[c].pc \in {"await", "done"}
    /\ cmd[c].pc = "await" => replies[c] = <<>>
    /\ cmd[c].pc = "done" => Len(replies[c]) = 1 /\ WellShaped(replies[c][1])

C20_OneStatusEvent ==
  /\ []C20_AtMostOneEvent
  /\ [][\A c \in Cmds : replies[c] # <<>> => replies'[c] = replies[c]]_vars
  /\ <>[](\A c \in 1..ncmd : Len(replies[c]) = 1)

\* A manual command found 8091 taken, the automatic one after it bound 8080.
C20_Witness ==
  /\ ncmd = 2
  /\ ~cmd[1].auto
  /\ replies[1] = <<ReplyPortBusy(endPort + 1)>>
  /\ cmd[2].auto
  /\ replies[2] = <<ReplyStarted(startPort)>>

\* C21: status event for stop.  Every 'stop-local-server' command sends a
\* 'local-server-status' event to its caller.
C21_StopStatusEvent ==
  [][StopLocalServer => Len(stopReplies') = Len(stopReplies) + 1]_vars

\* The positions at which the terminating marker starts in a text.
MarkerAt(a) == {i \in 1..(Len(a) - 1) : a[i] = MarkA /\ a[i + 1] = MarkB}

\* Where the j-th marker of a text starts.
NthMarker(a, j) ==
  CHOOSE i \in MarkerAt(a) : Cardinality({x \in MarkerAt(a) : x <= i}) = j

\* The j-th complete frame of a text: what follows the marker before it, up
\* to and including its own marker.
NthFrame(a, j) ==
  SubSeq(a, IF j = 1 THEN 1 ELSE NthMarker(a, j - 1) + 2, NthMarker(a, j) + 1)

\* What follows the last marker of a text.
Fragment(a) ==
  IF MarkerAt(a) = {} THEN a
  ELSE SubSeq(a, NthMarker(a, Cardinality(MarkerAt(a))) + 2, Len(a))

Min(x, y) == IF x <= y THEN x ELSE y

\* C22: frame extraction.  When a chunk of output has been handled, the
\* buffer holds no marker and equals what followed the last marker of the
\* buffer with the chunk appended; with k markers in that text and q queue
\* entries, the first min(k, q) entries have left the queue, each pending
\* one of them resolved with the frame of its position and its timer
\* cleared, and the other entries are as they were.
C22_FrameExtraction ==
  [][\A p \in Procs :
       Len(pipe'[p]) < Len(pipe[p]) =>
         LET acc == buffer \o SubSeq(pipe[p], 1, Len(pipe[p]) - Len(pipe'[p]))
             q == Len(queue)
             n == Min(Cardinality(MarkerAt(acc)), q)
         IN  /\ MarkerAt(buffer') = {}
             /\ buffer' = Fragment(acc)
             /\ queue' = SubSeq(queue, n + 1, q)
             /\ \A i \in 1..n :
                  status[queue[i]] = "pending" =>
                    /\ status'[queue[i]] = "resolved"
                    /\ result'[queue[i]] = NthFrame(acc, i)
                    /\ ~timer'[queue[i]]
             /\ \A i \in (n + 1)..q :
                  /\ status'[queue[i]] = status[queue[i]]
                  /\ timer'[queue[i]] = timer[queue[i]]]_vars

\* One frame and the first byte of the next have been handled with two
\* entries queued: the first is resolved, the second waits, the buffer holds
\* the byte.
C22_Witness ==
  /\ Undisturbed
  /\ status[1] = "resolved"
  /\ result[1] = Frame(1)
  /\ status[2] = "pending"
  /\ queue = <<2>>
  /\ buffer = <<2>>
  /\ pipe[1] = delimiter

\* C23: start failure does not queue.  A generateSvg call made while the
\* service has no process and the artifact is missing is rejected with the
\* error start() threw; the queue and the timers are as before, nothing is
\* written to any process and no process is spawned.
C23_StartFailureDoesNotQueue ==
  [][(nreq' # nreq /\ process = 0 /\ ~jar) =>
       /\ status'[nreq'] = "rejected"
       /\ err'[nreq'] = "EngineBinaryMissing"
       /\ queue' = queue
       /\ timer' = timer
       /\ stdin' = stdin
       /\ process' = 0
       /\ nproc' = nproc
       /\ pstate' = pstate]_vars

\* The engine had served a request that timed out; its handle was cleared,
\* the artifact went missing, and the next call was refused.
C23_Witness ==
  /\ nreq = 2
  /\ err[1] = "RenderTimeout"
  /\ status[2] = "rejected"
  /\ err[2] = "EngineBinaryMissing"
  /\ process = 0
  /\ queue = <<>>
  /\ ~jar

\* The text a path carries has no terminator, or the path carries none.
FailsOnItsOwn(method, path) ==
  /\ method # "OPTIONS"
  /\ \/ NoPayloadSegment(path)
     \/ NoTerminator(Tail(path[findIndex(path)]))

\* C24: per-request failures are isolated.  An HTTP request without a
\* payload segment, or with unterminated text, that arrives while the engine
\* runs and other requests are queued is answered with 400, or resolved with
\* the placeholder; the queue, the buffer, the process, the timers, what is
\* written and what is still to be delivered, the outcome of every other
\* request and the record of every other HTTP request are as before.
C24_FailuresIsolated ==
  [][\A h \in Reqs :
       ( /\ Arrives(h)
         /\ process # 0
         /\ queue # <<>>
         /\ FailsOnItsOwn(http'[h].method, http'[h].path) ) =>
         /\ queue' = queue
         /\ buffer' = buffer
         /\ process' = process
         /\ pstate' = pstate
         /\ timer' = timer
         /\ stdin' = stdin
         /\ pipe' = pipe
         /\ \A r \in 1..nreq :
              status'[r] = status[r] /\ result'[r] = result[r] /\ err'[r] = err[r]
         /\ \A g \in Reqs \ {h} : http'[g] = http[g]
         /\ IF NoPayloadSegment(http'[h].path)
            THEN /\ http'[h].resp = <<Response(400, InvalidPathBody, "")>>
                 /\ nreq' = nreq
            ELSE /\ nreq' = nreq + 1
                 /\ status'[nreq'] = "resolved"
                 /\ result'[nreq'] = Placeholder]_vars

\* A request with unterminated text was resolved with the placeholder while
\* the request before it waits for the engine.
C24_Witness ==
  /\ nhttp = 2
  /\ status[1] = "pending"
  /\ queue = <<1>>
  /\ timer[1]
  /\ process # 0
  /\ http[2].req = 2
  /\ status[2] = "resolved"
  /\ result[2] = Placeholder

\* Position of r in q (0 when r is not in q).
PosIn(q, r) == IF r \in Range(q) THEN CHOOSE i \in 1..Len(q) : q[i] = r ELSE 0

Increasing(q) == \A i, j \in 1..Len(q) : i < j => q[i] < q[j]

\* C25: write order equals queue order.  Requests are numbered in the order
\* of their submission.  The queue and the unread input of every process are
\* always in submission order; a step that adds an entry to the queue adds
\* the newly submitted request at the tail and nothing else, and the only
\* block written in that step is that request's, at the end of the current
\* process's input; a block is written only in such a step; two requests that
\* stay in the queue keep their relative order.
C25_WriteOrder ==
  /\ [](Increasing(queue) /\ \A p \in Procs : Increasing(stdin[p]))
  /\ [][/\ \A a, b \in Range(queue) \cap Range(queue') :
             PosIn(queue, a) < PosIn(queue, b) => PosIn(queue', a) < PosIn(queue', b)
        /\ Range(queue') \ Range(queue) # {} =>
             /\ nreq' = nreq + 1
             /\ queue' = Append(queue, nreq')
             /\ \A p \in Procs \ {process'} : stdin'[p] = stdin[p]
             /\ stdin'[process'] \in {Append(stdin[process'], nreq'), stdin[process']}
        /\ \A p \in Procs :
             Len(stdin'[p]) > Len(stdin[p]) =>
               /\ p = process'
               /\ stdin'[p] = Append(stdin[p], nreq')
               /\ nreq' = nreq + 1
               /\ queue' = Append(queue, nreq')]_vars

\* Two requests are queued and their blocks lie unread in the input of the
\* current process, both in submission order.
C25_Witness ==
  /\ process # 0
  /\ queue = <<1, 2>>
  /\ stdin[process] = <<1, 2>>
  /\ status[1] = "pending"
  /\ status[2] = "pending"

\* C26: only live requests can trigger a restart.  When the timer of a request
\* that is no longer in the queue fires, the handle, the processes and the
\* queue stay as they are: no process is killed, none is spawned, no entry is
\* removed.
C26_OnlyLiveRequestsRestart ==
  [][\A r \in Reqs :
       (timer[r] /\ ~timer'[r] /\ r \notin Range(queue)) =>
         /\ process' = process
         /\ nproc' = nproc
         /\ pstate' = pstate
         /\ queue' = queue]_vars

\* C27: a superseded process cannot close its successor.  The 'close' event
\* of a killed process that arrives while the handle names another process
\* leaves the handle and the queue as they are and rejects no queued request.
C27_StaleCloseHarmless ==
  [][\A p \in Procs :
       ( /\ pstate[p] = "killed"
         /\ pstate'[p] = "closed"
         /\ process # 0
         /\ process # p ) =>
         /\ process' = process
         /\ queue' = queue
         /\ \A r \in Range(queue) : status'[r] = status[r]]_vars

\* C28: no stale output across restarts.  When bytes of a process that is no
\* longer the current one are delivered while another process is current,
\* the buffer and the queue stay as they are and no request is settled.
C28_NoStaleOutput ==
  [][\A p \in Procs :
       ( /\ Len(pipe'[p]) < Len(pipe[p])
         /\ process # 0
         /\ process # p ) =>
         /\ buffer' = buffer
         /\ queue' = queue
         /\ status' = status
         /\ result' = result]_vars

\* C29: the queue holds only pending requests: every entry of the queue
\* belongs to a request that is neither resolved nor rejected.
C29_QueueHoldsPending ==
  \A i \in 1..Len(queue) : status[queue[i]] = "pending"

\* C30: a reported success is true.  In the step in which a command sends
\* {success: true, port: P}, localServer refers to the server that command
\* bound to P, and that server is listening.
C30_ReportedSuccessIsTrue ==
  [][\A c \in Cmds :
       (Reports(c) /\ replies'[c][1].success) =>
         LET s == <<c, replies'[c][1].port>>
         IN  /\ localServer' = s
             /\ srv'[s] = "listening"]_vars

====
